---------------------------- MODULE Spec2Model ----------------------------
(***************************************************************************)
(* Model of the SORT tracker of "TASK 4 Object Detection and Tracking"     *)
(* (sort_tracker.py): the IoU measure, the per-track estimator             *)
(* KalmanFilterTracker, the assignment step SORTTracker._associate and the  *)
(* per-frame state machine SORTTracker.update.                             *)
(*                                                                         *)
(* Numbers.  The program computes on floats.  The model computes on exact  *)
(* rationals: every length is an integer number of 1/Scale pixels, where   *)
(* Scale = 2 * 10^(MaxFrames-1) makes the halving of _bbox_to_state /       *)
(* _state_to_bbox and up to MaxFrames-1 blends with weights 7/10 and 3/10  *)
(* exact.  An IoU value is a pair <<numerator, denominator>>.  Sums of IoU *)
(* values exceed TLC's 32-bit integers and are compared as multi-digit     *)
(* naturals (the Big... operators).                                        *)
(***************************************************************************)
EXTENDS Integers, Sequences, FiniteSets, TLC

(***************************************************************************)
(* Bounds of the model.                                                    *)
(***************************************************************************)
MaxFrames == 4     \* update calls per behaviour
MaxDets == 2       \* detections per frame
MaxAge == 2        \* max_age is drawn from 0..MaxAge
MaxMinHits == 2    \* min_hits is drawn from 1..MaxMinHits

(***************************************************************************)
(* Exact arithmetic.                                                       *)
(***************************************************************************)
RECURSIVE Pow10(_)
Pow10(n) == IF n = 0 THEN 1 ELSE 10 * Pow10(n - 1)

Scale == 2 * Pow10(MaxFrames - 1)

\* max and min of Python, on two arguments
max(a, b) == IF a >= b THEN a ELSE b
min(a, b) == IF a <= b THEN a ELSE b

\* Multi-digit naturals: little-endian sequences of digits in base BigBase,
\* without leading zeros (0 is the empty sequence).
BigBase == Pow10(4)

RECURSIVE BigOf(_)
BigOf(n) == IF n = 0 THEN <<>> ELSE <<n % BigBase>> \o BigOf(n \div BigBase)

RECURSIVE BigAddC(_, _, _)
BigAddC(a, b, c) ==
    IF a = <<>> /\ b = <<>>
    THEN (IF c = 0 THEN <<>> ELSE <<c>>)
    ELSE LET x == IF a = <<>> THEN 0 ELSE Head(a)
             y == IF b = <<>> THEN 0 ELSE Head(b)
             s == x + y + c
         IN  <<s % BigBase>> \o
             BigAddC(IF a = <<>> THEN <<>> ELSE Tail(a),
                     IF b = <<>> THEN <<>> ELSE Tail(b), s \div BigBase)

BigAdd(a, b) == BigAddC(a, b, 0)

\* a * k + c for a digit k
RECURSIVE BigMulDigit(_, _, _)
BigMulDigit(a, k, c) ==
    IF a = <<>>
    THEN BigOf(c)
    ELSE LET s == Head(a) * k + c
         IN  <<s % BigBase>> \o BigMulDigit(Tail(a), k, s \div BigBase)

RECURSIVE BigMul(_, _)
BigMul(a, b) ==
    IF a = <<>> \/ b = <<>>
    THEN <<>>
    ELSE LET rest == BigMul(a, Tail(b))
             low  == IF Head(b) = 0 THEN <<>> ELSE BigMulDigit(a, Head(b), 0)
         IN  BigAdd(low, IF rest = <<>> THEN <<>> ELSE <<0>> \o rest)

\* a < b
RECURSIVE BigLess(_, _)
BigLess(a, b) ==
    IF Len(a) # Len(b)
    THEN Len(a) < Len(b)
    ELSE IF a = <<>>
         THEN FALSE
         ELSE LET n == Len(a)
              IN  IF a[n] # b[n]
                  THEN a[n] < b[n]
                  ELSE BigLess(SubSeq(a, 1, n - 1), SubSeq(b, 1, n - 1))

\* Fractions of multi-digit naturals <<numerator, denominator>>.
RECURSIVE Gcd(_, _)
Gcd(a, b) == IF b = 0 THEN a ELSE Gcd(b, a % b)

FracOf(v) == LET g == Gcd(v[1], v[2]) IN <<BigOf(v[1] \div g), BigOf(v[2] \div g)>>
FracAdd(x, y) == <<BigAdd(BigMul(x[1], y[2]), BigMul(y[1], x[2])), BigMul(x[2], y[2])>>
FracLess(x, y) == BigLess(BigMul(x[1], y[2]), BigMul(y[1], x[2]))

(***************************************************************************)
(* iou(bbox1, bbox2): the float it returns, as <<numerator, denominator>>. *)
(***************************************************************************)
BoxArea(b) == (b[3] - b[1]) * (b[4] - b[2])

InterArea(a, b) ==
    (min(a[3], b[3]) - max(a[1], b[1])) * (min(a[4], b[4]) - max(a[2], b[2]))

NoInter(a, b) ==
    min(a[3], b[3]) < max(a[1], b[1]) \/ min(a[4], b[4]) < max(a[2], b[2])

\* mutant of iou: the union is the sum of the areas
iou_UnionIsSum(bbox1, bbox2) ==
    LET union_area == BoxArea(bbox1) + BoxArea(bbox2)
    IN  IF NoInter(bbox1, bbox2) \/ union_area = 0
        THEN <<0, 1>>
        ELSE <<InterArea(bbox1, bbox2), union_area>>

\* mutant of iou: the area of bbox1 stands for the area of bbox2
iou_FirstAreaTwice(bbox1, bbox2) ==
    LET union_area == BoxArea(bbox1) + BoxArea(bbox1) - InterArea(bbox1, bbox2)
    IN  IF NoInter(bbox1, bbox2) \/ union_area = 0
        THEN <<0, 1>>
        ELSE <<InterArea(bbox1, bbox2), union_area>>

\* mutant of iou: no test of union_area == 0 before the division
iou_NoZeroTest(bbox1, bbox2) ==
    IF NoInter(bbox1, bbox2)
    THEN <<0, 1>>
    ELSE <<InterArea(bbox1, bbox2),
           BoxArea(bbox1) + BoxArea(bbox2) - InterArea(bbox1, bbox2)>>

iou(bbox1, bbox2) ==
    LET x1_min == bbox1[1]
        y1_min == bbox1[2]
        x1_max == bbox1[3]
        y1_max == bbox1[4]
        x2_min == bbox2[1]
        y2_min == bbox2[2]
        x2_max == bbox2[3]
        y2_max == bbox2[4]
        inter_xmin == max(x1_min, x2_min)
        inter_ymin == max(y1_min, y2_min)
        inter_xmax == min(x1_max, x2_max)
        inter_ymax == min(y1_max, y2_max)
        inter_area == (inter_xmax - inter_xmin) * (inter_ymax - inter_ymin)
        bbox1_area == (x1_max - x1_min) * (y1_max - y1_min)
        bbox2_area == (x2_max - x2_min) * (y2_max - y2_min)
        union_area == bbox1_area + bbox2_area - inter_area
    IN  IF inter_xmax < inter_xmin \/ inter_ymax < inter_ymin
        THEN <<0, 1>>
        ELSE IF union_area = 0
             THEN <<0, 1>>
             ELSE <<inter_area, union_area>>

\* v > t for an IoU value v and a threshold t = <<numerator, denominator>>
\* (denominators are positive; v is reduced first to keep the products small)
IouGreater(v, t) ==
    LET g == Gcd(v[1], v[2])
    IN  (v[1] \div g) * t[2] > t[1] * (v[2] \div g)

(***************************************************************************)
(* KalmanFilterTracker.                                                    *)
(***************************************************************************)
None == "None"

AlphaNum == 7
BetaNum == 3
AlphaDen == 10

\* The float NaN, a value apart from every length of the model.  A float
\* operation with a NaN operand yields NaN.
NaN == 0 - Pow10(9)

fadd(a, b) == IF a = NaN \/ b = NaN THEN NaN ELSE a + b
fsub(a, b) == IF a = NaN \/ b = NaN THEN NaN ELSE a - b
fhalf(a) == IF a = NaN THEN NaN ELSE a \div 2

\* mutant of bbox_to_state: the centre is not halved
bbox_to_state_NoHalf(bbox) ==
    <<fadd(bbox[1], bbox[3]), fadd(bbox[2], bbox[4]),
      fsub(bbox[3], bbox[1]), fsub(bbox[4], bbox[2])>>

bbox_to_state(bbox) ==
    LET x1 == bbox[1]
        y1 == bbox[2]
        x2 == bbox[3]
        y2 == bbox[4]
    IN  <<fhalf(fadd(x1, x2)), fhalf(fadd(y1, y2)), fsub(x2, x1), fsub(y2, y1)>>

state_to_bbox(state) ==
    LET cx == state[1]
        cy == state[2]
        w  == state[3]
        h  == state[4]
    IN  <<fsub(cx, fhalf(w)), fsub(cy, fhalf(h)), fadd(cx, fhalf(w)), fadd(cy, fhalf(h))>>

\* mutant of KalmanFilterTracker: the age starts at 0
KalmanFilterTracker_AgeZero(bbox) ==
    [bbox |-> bbox, state |-> bbox_to_state(bbox), age |-> 0, hits |-> 1, id |-> None]

\* KalmanFilterTracker.__init__ (the covariance is never read and is left out)
KalmanFilterTracker(bbox) ==
    [bbox |-> bbox, state |-> bbox_to_state(bbox), age |-> 1, hits |-> 1, id |-> None]

\* mutant of predict: the age is not incremented
predict_NoAge(t) == t

\* mutant of predict: the age grows by two
predict_AgeTwice(t) == [t EXCEPT !.age = t.age + 2]

\* predict: the tracker after the call; the call returns get_bbox of it
predict(t) == [t EXCEPT !.age = t.age + 1]

\* mutant of Blend: the measurement is subtracted
Blend_Minus(old, new) ==
    [i \in 1..4 |-> (AlphaNum * old[i] - BetaNum * new[i]) \div AlphaDen]

\* mutant of Blend: the weights are exchanged
Blend_Swapped(old, new) ==
    [i \in 1..4 |-> (BetaNum * old[i] + AlphaNum * new[i]) \div AlphaDen]

Blend(old, new) ==
    [i \in 1..4 |-> (AlphaNum * old[i] + BetaNum * new[i]) \div AlphaDen]

\* mutant of KF_update: hits is not incremented
KF_update_NoHits(t, bbox) ==
    LET s == Blend(t.state, bbox_to_state(bbox))
    IN  [t EXCEPT !.state = s, !.bbox = state_to_bbox(s)]

\* KalmanFilterTracker.update
KF_update(t, bbox) ==
    LET new_state == bbox_to_state(bbox)
        s == Blend(t.state, new_state)
    IN  [t EXCEPT !.state = s, !.hits = t.hits + 1, !.bbox = state_to_bbox(s)]

get_bbox(t) == state_to_bbox(t.state)

(***************************************************************************)
(* Inputs: the detections of a frame are a sequence of at most MaxDets     *)
(* boxes drawn from PixelBoxes (pixel coordinates x1, y1, x2, y2).  The     *)
(* first two overlap with IoU 1/3, the third touches the second along an   *)
(* edge and is disjoint from the first.                                    *)
(***************************************************************************)
PixelBoxes == {<<0, 0, 2, 2>>, <<1, 0, 3, 2>>, <<3, 1, 6, 3>>}

Px(b) == <<b[1] * Scale, b[2] * Scale, b[3] * Scale, b[4] * Scale>>

DetBoxes == {Px(b) : b \in PixelBoxes}

DetSeqs == UNION {[1..n -> DetBoxes] : n \in 0..MaxDets}

\* iou_threshold values <<numerator, denominator>>: 0.3, the default
Thresholds == {<<3, 10>>}

(***************************************************************************)
(* scipy.optimize.linear_sum_assignment(-iou_matrix).  The library is not  *)
(* part of the repository; it is modelled by its contract: it returns      *)
(* min(N, M) index pairs <<d, p>>, no row and no column twice, sorted by   *)
(* row, of minimal total cost, i.e. of maximal total IoU.  Which optimal    *)
(* assignment it returns when several exist is left open, so the operator  *)
(* is the set of all of them.  Indices are 1-based here (0-based in the    *)
(* program).                                                               *)
(***************************************************************************)
Injections(n, m) ==
    {f \in [1..n -> 1..m] : \A i, j \in 1..n : f[i] = f[j] => i = j}

\* the assignments of all of the smaller side, as sequences sorted by row
Assignments(n, m) ==
    IF n <= m
    THEN {[d \in 1..n |-> <<d, f[d]>>] : f \in Injections(n, m)}
    ELSE {LET rows == {g[p] : p \in 1..m}
              inv(d) == CHOOSE p \in 1..m : g[p] = d
              RECURSIVE Sorted(_)
              Sorted(d) == IF d > n THEN <<>>
                           ELSE (IF d \in rows THEN <<<<d, inv(d)>>>> ELSE <<>>)
                                \o Sorted(d + 1)
          IN  Sorted(1) : g \in Injections(m, n)}

RECURSIVE TotalIou(_, _, _)
TotalIou(matrix, a, k) ==
    IF k > Len(a)
    THEN <<<<>>, <<1>>>>
    ELSE LET v == matrix[a[k][1]][a[k][2]]
             rest == TotalIou(matrix, a, k + 1)
         IN  IF v[1] = 0 THEN rest ELSE FracAdd(FracOf(v), rest)

\* the largest total among pairs <<assignment, total>>
RECURSIVE MaxTotal(_)
MaxTotal(S) ==
    LET x == CHOOSE y \in S : TRUE
    IN  IF S = {x}
        THEN x[2]
        ELSE LET r == MaxTotal(S \ {x})
             IN  IF FracLess(r, x[2]) THEN x[2] ELSE r

\* mutant of linear_sum_assignment: any assignment, optimal or not
linear_sum_assignment_Any(matrix, n, m) == Assignments(n, m)

linear_sum_assignment(matrix, n, m) ==
    LET cands == Assignments(n, m)
        totals == {<<a, TotalIou(matrix, a, 1)>> : a \in cands}
        best == MaxTotal(totals)
    IN  IF Cardinality(cands) = 1
        THEN cands
        ELSE {x[1] : x \in {y \in totals : ~FracLess(y[2], best)}}

(***************************************************************************)
(* SORTTracker._associate: the set of its possible outcomes.  An outcome   *)
(* is a normal return (raised = FALSE) of matched pairs <<d, p>>, unmatched *)
(* detection indices and unmatched prediction indices, or the IndexError   *)
(* of line 180: with no accepted pair np.array([]) is one-dimensional and  *)
(* matched[:, 0] cannot be taken.                                          *)
(***************************************************************************)
Range1(n) == [i \in 1..n |-> i]

IndexError == [raised |-> TRUE, matched |-> <<>>, unmatched_dets |-> <<>>,
               unmatched_trks |-> <<>>]

Returned(matched, unmatched_dets, unmatched_trks) ==
    [raised |-> FALSE, matched |-> matched, unmatched_dets |-> unmatched_dets,
     unmatched_trks |-> unmatched_trks]

\* lines 173-176: the pairs of the assignment whose IoU exceeds the threshold
Accepted(iou_matrix, a, thr) ==
    SelectSeq(a, LAMBDA pr : IouGreater(iou_matrix[pr[1]][pr[2]], thr))

\* lines 178-184
Unmatched(matched, n, m) ==
    IF matched = <<>>
    THEN IndexError
    ELSE Returned(matched,
             SelectSeq(Range1(n), LAMBDA d : \A k \in 1..Len(matched) : matched[k][1] # d),
             SelectSeq(Range1(m), LAMBDA p : \A k \in 1..Len(matched) : matched[k][2] # p))

associate(detections, predictions, thr) ==
    IF Len(predictions) = 0
    THEN {Returned(<<>>, Range1(Len(detections)), <<>>)}
    ELSE IF Len(detections) = 0
         THEN {Returned(<<>>, <<>>, Range1(Len(predictions)))}
         ELSE LET n == Len(detections)
                  m == Len(predictions)
                  iou_matrix == [d \in 1..n |-> [p \in 1..m |->
                                    iou(detections[d], predictions[p])]]
              IN  {Unmatched(Accepted(iou_matrix, a, thr), n, m) :
                      a \in linear_sum_assignment(iou_matrix, n, m)}

(***************************************************************************)
(* SORTTracker: the state of one tracker instance and its update method.   *)
(***************************************************************************)
VARIABLES
    max_age, min_hits, iou_threshold,   \* the configuration, set by __init__
    trackers,                           \* the live set, a sequence of tracks
    next_id, frame_count,
    ret,        \* rows <<x1, y1, x2, y2, id>> returned by the last update call
    raised,     \* TRUE when the last update call ended in the IndexError
    call,       \* history: the input and the intermediate values of the last call
    ghost,      \* history: for trackers[i], when and from what it was created
    created,    \* history: the number of tracks ever created
    removed,    \* history: the tracks the last call pruned
    raises,     \* history: the number of update calls that raised
    inputs,     \* history: the detections of every call so far (scenario runs)
    args,       \* the arguments of a call of a function outside a tracker run
    result      \* what that call returned, <<>> before the call

vars == <<max_age, min_hits, iou_threshold, trackers, next_id, frame_count,
          ret, raised, call, ghost, created, removed, raises, inputs, args, result>>

NoCall == [dets |-> <<>>, before |-> <<>>, predicted |-> <<>>,
           assoc |-> Returned(<<>>, <<>>, <<>>), updated |-> <<>>, spawned |-> <<>>]

\* lines 104-106: the state of a tracker after construction
Fresh ==
    /\ trackers = <<>>
    /\ next_id = 1
    /\ frame_count = 0
    /\ ret = <<>>
    /\ raised = FALSE
    /\ call = NoCall
    /\ ghost = <<>>
    /\ created = 0
    /\ removed = <<>>
    /\ raises = 0
    /\ inputs = <<>>

\* SORTTracker.__init__, called with any of the bounded configurations.
\* The constructor stores its arguments unchecked, so max_age = 0 is a
\* configuration too.
Init ==
    /\ max_age \in 0..MaxAge
    /\ min_hits \in 1..MaxMinHits
    /\ iou_threshold \in Thresholds
    /\ Fresh
    /\ args = <<>>
    /\ result = <<>>

\* lines 116-120: every live track predicts
PredictAll(trks) == [i \in 1..Len(trks) |-> predict(trks[i])]

Predictions(trks) == [i \in 1..Len(trks) |-> get_bbox(trks[i])]

\* lines 127-129: the matched tracks absorb their detections, pair by pair
RECURSIVE UpdateMatched(_, _, _, _)
UpdateMatched(trks, matched, detections, k) ==
    IF k > Len(matched)
    THEN trks
    ELSE LET d == matched[k][1]
             t == matched[k][2]
         IN  UpdateMatched([trks EXCEPT ![t] = KF_update(trks[t], detections[d])],
                           matched, detections, k + 1)

\* lines 133-135: the track of an unmatched detection and its id
NewTracker(bbox, id) == [KalmanFilterTracker(bbox) EXCEPT !.id = id]

\* mutant of Spawn: next_id is not incremented
RECURSIVE Spawn_NoIncrement(_, _, _, _, _)
Spawn_NoIncrement(trks, nid, unmatched_dets, detections, k) ==
    IF k > Len(unmatched_dets)
    THEN [trackers |-> trks, next_id |-> nid]
    ELSE Spawn_NoIncrement(Append(trks, NewTracker(detections[unmatched_dets[k]], nid)),
                           nid, unmatched_dets, detections, k + 1)

\* mutant of Spawn: the id is taken from the size of the live set
RECURSIVE Spawn_IdFromLength(_, _, _, _, _)
Spawn_IdFromLength(trks, nid, unmatched_dets, detections, k) ==
    IF k > Len(unmatched_dets)
    THEN [trackers |-> trks, next_id |-> Len(trks) + 1]
    ELSE Spawn_IdFromLength(
             Append(trks, NewTracker(detections[unmatched_dets[k]], Len(trks) + 1)),
             nid, unmatched_dets, detections, k + 1)

\* mutant of Spawn: a new track is put in front of the live set
RECURSIVE Spawn_Prepend(_, _, _, _, _)
Spawn_Prepend(trks, nid, unmatched_dets, detections, k) ==
    IF k > Len(unmatched_dets)
    THEN [trackers |-> trks, next_id |-> nid]
    ELSE Spawn_Prepend(<<NewTracker(detections[unmatched_dets[k]], nid)>> \o trks,
                       nid + 1, unmatched_dets, detections, k + 1)

\* lines 131-136: one new track per unmatched detection, in list order;
\* the result is the live set and the id counter after the loop
RECURSIVE Spawn(_, _, _, _, _)
Spawn(trks, nid, unmatched_dets, detections, k) ==
    IF k > Len(unmatched_dets)
    THEN [trackers |-> trks, next_id |-> nid]
    ELSE Spawn(Append(trks, NewTracker(detections[unmatched_dets[k]], nid)),
               nid + 1, unmatched_dets, detections, k + 1)

\* mutant of Alive: a track is kept while age - hits is at most max_age
Alive_Inclusive(t, maxage) == (t.age - t.hits) <= maxage

\* lines 138-142
Alive(t, maxage) == (t.age - t.hits) < maxage

Prune(trks, maxage) == SelectSeq(trks, LAMBDA t : Alive(t, maxage))

\* mutant of Gate: no grace period for the first min_hits frames
Gate_NoGrace(t, minhits, fc) == t.hits >= minhits

\* mutant of Gate: a strict comparison of hits
Gate_Strict(t, minhits, fc) == t.hits > minhits \/ fc <= minhits

\* mutant of Gate: the grace period ends one frame early
Gate_ShortGrace(t, minhits, fc) == t.hits >= minhits \/ fc < minhits

\* lines 144-151
Gate(t, minhits, fc) == t.hits >= minhits \/ fc <= minhits

Row(t) == LET bbox == get_bbox(t) IN <<bbox[1], bbox[2], bbox[3], bbox[4], t.id>>

Emit(trks, minhits, fc) ==
    LET shown == SelectSeq(trks, LAMBDA t : Gate(t, minhits, fc))
    IN  [i \in 1..Len(shown) |-> Row(shown[i])]

\* History of the tracks: ghost[i] belongs to trackers[i].
GhostUpdated(g, matched, fc) ==
    [i \in 1..Len(g) |->
        IF \E k \in 1..Len(matched) : matched[k][2] = i
        THEN [g[i] EXCEPT !.last = fc]
        ELSE g[i]]

GhostSpawned(g, unmatched_dets, fc, n) ==
    g \o [k \in 1..Len(unmatched_dets) |->
            [ord |-> n + k, born |-> fc, det |-> unmatched_dets[k], last |-> fc]]

KeptIdx(trks, maxage) ==
    SelectSeq(Range1(Len(trks)), LAMBDA i : Alive(trks[i], maxage))

GoneIdx(trks, maxage) ==
    SelectSeq(Range1(Len(trks)), LAMBDA i : ~Alive(trks[i], maxage))

\* the elements of seq at the positions idx
RECURSIVE Pick(_, _)
Pick(seq, idx) ==
    IF idx = <<>> THEN <<>> ELSE <<seq[Head(idx)]>> \o Pick(seq, Tail(idx))

Removed(trks, g, idx) ==
    [j \in 1..Len(idx) |->
        [id |-> trks[idx[j]].id, last |-> g[idx[j]].last, born |-> g[idx[j]].born]]

\* SORTTracker.update(detections).  When _associate raises, the exception
\* leaves update after line 123: frame_count and the ages of the predict
\* loop are already written, nothing else is, and no value is returned.
\* The instance stays usable, so later calls are part of the behaviours.
UpdateCall(detections) ==
    /\ LET fc == frame_count + 1
           predicted == PredictAll(trackers)
           predictions == Predictions(predicted)
       IN  \E r \in associate(detections, predictions, iou_threshold) :
             IF r.raised
             THEN /\ frame_count' = fc
                  /\ trackers' = predicted
                  /\ raised' = TRUE
                  /\ ret' = <<>>
                  /\ call' = [dets |-> detections, before |-> trackers,
                              predicted |-> predicted, assoc |-> r,
                              updated |-> <<>>, spawned |-> <<>>]
                  /\ removed' = <<>>
                  /\ raises' = raises + 1
                  /\ UNCHANGED <<next_id, ghost, created>>
             ELSE LET updated == UpdateMatched(predicted, r.matched, detections, 1)
                      sp == Spawn(updated, next_id, r.unmatched_dets, detections, 1)
                      spawned == sp.trackers
                      g == GhostSpawned(GhostUpdated(ghost, r.matched, fc),
                                        r.unmatched_dets, fc, created)
                      kept == KeptIdx(spawned, max_age)
                      gone == GoneIdx(spawned, max_age)
                      pruned == Prune(spawned, max_age)
                  IN  /\ frame_count' = fc
                      /\ trackers' = pruned
                      /\ next_id' = sp.next_id
                      /\ raised' = FALSE
                      /\ ret' = Emit(pruned, min_hits, fc)
                      /\ call' = [dets |-> detections, before |-> trackers,
                                  predicted |-> predicted, assoc |-> r,
                                  updated |-> updated, spawned |-> spawned]
                      /\ ghost' = Pick(g, kept)
                      /\ created' = created + Len(r.unmatched_dets)
                      /\ removed' = Removed(spawned, g, gone)
                      /\ UNCHANGED raises
    /\ UNCHANGED <<max_age, min_hits, iou_threshold>>

\* one of the MaxFrames update calls of a run
Update(detections) ==
    /\ frame_count < MaxFrames
    /\ UpdateCall(detections)
    /\ UNCHANGED <<inputs, args, result>>

Next == \E detections \in DetSeqs : Update(detections)

Spec == Init /\ [][Next]_vars

(***************************************************************************)
(* Scenario runs: the constructor calls and the frames of the worked       *)
(* scenarios.  The boxes are (0,0,10,10) and a box well separated from it; *)
(* a frame brings at most MaxDets of them, each at most once, in any       *)
(* order.  Two boxes of a scenario overlap only when they are equal, so    *)
(* every blend of a scenario run is exact.                                 *)
(***************************************************************************)
ScenFrames == 5    \* update calls per scenario run

ScenConfigs == {[max_age |-> 3, min_hits |-> 1, iou_threshold |-> <<3, 10>>],
                [max_age |-> 3, min_hits |-> 3, iou_threshold |-> <<3, 10>>]}

BoxA == Px(<<0, 0, 10, 10>>)
BoxB == Px(<<20, 20, 30, 30>>)

ScenSeqs ==
    {s \in UNION {[1..n -> {BoxA, BoxB}] : n \in 0..MaxDets} :
        \A i, j \in 1..Len(s) : s[i] = s[j] => i = j}

ScenInit ==
    /\ \E c \in ScenConfigs :
          /\ max_age = c.max_age
          /\ min_hits = c.min_hits
          /\ iou_threshold = c.iou_threshold
    /\ Fresh
    /\ args = <<>>
    /\ result = <<>>

\* one of the ScenFrames update calls of a scenario run
ScenUpdate(detections) ==
    /\ frame_count < ScenFrames
    /\ UpdateCall(detections)
    /\ inputs' = Append(inputs, detections)
    /\ UNCHANGED <<args, result>>

ScenNext == \E detections \in ScenSeqs : ScenUpdate(detections)

SpecScenario == ScenInit /\ [][ScenNext]_vars

(***************************************************************************)
(* Runs with non-finite detections: update stores what it is given, so a   *)
(* frame may bring the detection (nan, 0, 2, 2).  The calls of these runs  *)
(* are the calls on an empty live set: there _associate returns before any *)
(* IoU is computed and no track is blended, so NaN reaches only            *)
(* _bbox_to_state and _state_to_bbox.                                      *)
(***************************************************************************)
NonFiniteBoxes == {<<NaN, 0, 2 * Scale, 2 * Scale>>}

NonFiniteSeqs == UNION {[1..n -> DetBoxes \cup NonFiniteBoxes] : n \in 0..MaxDets}

NonFiniteUpdate(detections) ==
    /\ frame_count < MaxFrames
    /\ trackers = <<>>
    /\ UpdateCall(detections)
    /\ UNCHANGED <<inputs, args, result>>

NonFiniteNext == \E detections \in NonFiniteSeqs : NonFiniteUpdate(detections)

SpecNonFinite == Init /\ [][NonFiniteNext]_vars

(***************************************************************************)
(* Calls of iou outside a tracker run: the two boxes are any two boxes     *)
(* with integer coordinates x in 0..MaxX and y in 0..MaxY, well formed,    *)
(* of zero area or inverted; the call stores what iou returns.  The        *)
(* tracker of these runs is the tracker of the default construction and    *)
(* is never called.                                                        *)
(***************************************************************************)
MaxX == 3
MaxY == 2

GridBoxes == (0..MaxX) \X (0..MaxY) \X (0..MaxX) \X (0..MaxY)

Defaults == [max_age |-> 30, min_hits |-> 3, iou_threshold |-> <<3, 10>>]

IouInit ==
    /\ max_age = Defaults.max_age
    /\ min_hits = Defaults.min_hits
    /\ iou_threshold = Defaults.iou_threshold
    /\ Fresh
    /\ args \in GridBoxes \X GridBoxes
    /\ result = <<>>

IouCall ==
    /\ result = <<>>
    /\ result' = iou(args[1], args[2])
    /\ UNCHANGED <<max_age, min_hits, iou_threshold, trackers, next_id, frame_count,
                   ret, raised, call, ghost, created, removed, raises, inputs, args>>

IouNext == IouCall

SpecIou == IouInit /\ [][IouNext]_vars

(***************************************************************************)
(* Calls of _associate outside a tracker run: at most MaxDets detections   *)
(* and at most MaxTrks predictions, boxes of DetBoxes, on a tracker whose  *)
(* iou_threshold is 0, 0.3 or 1/3 (the IoU of the first two boxes).  The   *)
(* call stores the pairing of linear_sum_assignment (<<>> when an early    *)
(* return leaves it uncomputed) next to what _associate returns.           *)
(***************************************************************************)
MaxTrks == 3

AssocThresholds == {<<0, 1>>, <<3, 10>>, <<1, 3>>}

PredSeqs == UNION {[1..m -> DetBoxes] : m \in 0..MaxTrks}

\* lines 164-168
IouMatrix(detections, predictions) ==
    [d \in 1..Len(detections) |-> [p \in 1..Len(predictions) |->
        iou(detections[d], predictions[p])]]

\* lines 158-171: the pairings the call may get from linear_sum_assignment
Candidates(detections, predictions) ==
    IF Len(predictions) = 0 \/ Len(detections) = 0
    THEN {<<>>}
    ELSE linear_sum_assignment(IouMatrix(detections, predictions),
                               Len(detections), Len(predictions))

\* the outcomes of _associate that go with the pairing a
AssociateVia(detections, predictions, thr, a) ==
    IF Len(predictions) = 0 \/ Len(detections) = 0
    THEN associate(detections, predictions, thr)
    ELSE {r \in associate(detections, predictions, thr) :
             r = Unmatched(Accepted(IouMatrix(detections, predictions), a, thr),
                           Len(detections), Len(predictions))}

AssocInit ==
    /\ max_age = Defaults.max_age
    /\ min_hits = Defaults.min_hits
    /\ iou_threshold \in AssocThresholds
    /\ Fresh
    /\ args \in DetSeqs \X PredSeqs
    /\ result = <<>>

AssociateCall ==
    /\ result = <<>>
    /\ \E a \in Candidates(args[1], args[2]) :
          \E r \in AssociateVia(args[1], args[2], iou_threshold, a) :
              result' = [cand |-> a, out |-> r]
    /\ UNCHANGED <<max_age, min_hits, iou_threshold, trackers, next_id, frame_count,
                   ret, raised, call, ghost, created, removed, raises, inputs, args>>

AssocNext == AssociateCall

SpecAssociate == AssocInit /\ [][AssocNext]_vars

(***************************************************************************)
(* Calls of the methods of one KalmanFilterTracker outside a tracker run:  *)
(* the object is constructed on a box of DetBoxes, without or with an id,  *)
(* and then predict, update (on a box of DetBoxes) and get_bbox are called *)
(* on it in any order, MaxFrames - 1 calls at most, so that every blend is *)
(* exact.  args is the object, result the last call: its method, the       *)
(* object before it, the measurement and the returned box (<<>> where      *)
(* there is none).                                                         *)
(***************************************************************************)
KalmanInit ==
    /\ max_age = Defaults.max_age
    /\ min_hits = Defaults.min_hits
    /\ iou_threshold = Defaults.iou_threshold
    /\ Fresh
    /\ \E bbox \in DetBoxes :
          \/ args = [t |-> KalmanFilterTracker(bbox), n |-> 0]
          \/ args = [t |-> NewTracker(bbox, 1), n |-> 0]
    /\ result = <<>>

Called(method, t, bbox, value) ==
    /\ args.n < MaxFrames - 1
    /\ args' = [t |-> t, n |-> args.n + 1]
    /\ result' = [method |-> method, before |-> args.t, bbox |-> bbox, value |-> value]
    /\ UNCHANGED <<max_age, min_hits, iou_threshold, trackers, next_id, frame_count,
                   ret, raised, call, ghost, created, removed, raises, inputs>>

PredictCall == Called("predict", predict(args.t), <<>>, get_bbox(predict(args.t)))

KFUpdateCall(bbox) == Called("update", KF_update(args.t, bbox), bbox, <<>>)

GetBboxCall == Called("get_bbox", args.t, <<>>, get_bbox(args.t))

KalmanNext ==
    \/ PredictCall
    \/ \E bbox \in DetBoxes : KFUpdateCall(bbox)
    \/ GetBboxCall

SpecKalman == KalmanInit /\ [][KalmanNext]_vars

(***************************************************************************)
(* FAQMatcher.find_best_match (similarity_matcher.py), called once on a    *)
(* matcher of MinFaqs..MaxFaqs FAQs.  The query text is turned into the    *)
(* vector of its cosine similarities to the FAQs by the TF-IDF vectorizer  *)
(* and cosine_similarity of scikit-learn (lines 58-64); that vector, in    *)
(* hundredths, is the input here, and lines 66-87 are modelled on it.      *)
(* A matcher holds two FAQs at least: with min_df=1 and max_df=0.9 (lines  *)
(* 27-28) the fit of line 42 fails on fewer documents.                     *)
(***************************************************************************)
MaxFaqs == 3

\* lines 27-28 and 42: fewer documents than this and the vectorizer cannot be fit
MinFaqs == 2

\* line 45: threshold=0.3, in hundredths
DefaultThreshold == 30

\* line 86: 'high' if best_similarity > 0.6, in hundredths
HighCut == 60

\* Similarities around both cuts: none, below the default threshold, on it,
\* on the confidence cut and above it.
Similarities == {0, 25, DefaultThreshold, HighCut, 75}

FaqThresholds == {0, DefaultThreshold, 50}

RECURSIVE SeqsUpTo(_, _)
SeqsUpTo(S, n) ==
    IF n = 0 THEN {<<>>}
    ELSE LET shorter == SeqsUpTo(S, n - 1)
         IN  shorter \cup {Append(s, x) : s \in {t \in shorter : Len(t) = n - 1}, x \in S}

SimilarityVectors == {s \in SeqsUpTo(Similarities, MaxFaqs) : Len(s) >= MinFaqs}

\* line 22: the database is a list of question/answer entries; entry i
\* of the program (counted from 0) is element i + 1 here.
faq_database(n) ==
    [i \in 1..n |-> [question |-> "q" \o ToString(i - 1),
                     answer |-> "a" \o ToString(i - 1)]]

\* line 73
NoMatchAnswer ==
    "I'm sorry, I couldn't find a matching answer in our FAQ database. Please contact our support team for assistance."

\* np.argmax, line 67: the first position of the maximum
argmax(similarities) ==
    CHOOSE i \in 1..Len(similarities) :
        /\ \A j \in 1..Len(similarities) : similarities[j] <= similarities[i]
        /\ \A j \in 1..(i - 1) : similarities[j] < similarities[i]

\* lines 66-87.  float() of line 74 and 83 keeps the value of the numpy
\* number; faq_index is the program's index, counted from 0.
find_best_match(database, similarities, threshold) ==
    LET best_match_idx == argmax(similarities)
        best_similarity == similarities[best_match_idx]
    IN  IF best_similarity < threshold
        THEN [type |-> "dict",
              answer |-> NoMatchAnswer,
              similarity_score |-> best_similarity,
              matched_question |-> None,
              faq_index |-> -1,
              confidence |-> "low"]
        ELSE [type |-> "dict",
              answer |-> database[best_match_idx].answer,
              similarity_score |-> best_similarity,
              matched_question |-> database[best_match_idx].question,
              faq_index |-> best_match_idx - 1,
              confidence |-> IF best_similarity > HighCut THEN "high" ELSE "medium"]

FaqInit ==
    /\ max_age = Defaults.max_age
    /\ min_hits = Defaults.min_hits
    /\ iou_threshold = Defaults.iou_threshold
    /\ Fresh
    /\ \E s \in SimilarityVectors, th \in FaqThresholds :
          args = [faq_database |-> faq_database(Len(s)),
                  similarities |-> s, threshold |-> th]
    /\ result = <<>>

FindBestMatchCall ==
    /\ result = <<>>
    /\ result' = find_best_match(args.faq_database, args.similarities, args.threshold)
    /\ UNCHANGED <<max_age, min_hits, iou_threshold, trackers, next_id, frame_count,
                   ret, raised, call, ghost, created, removed, raises, inputs, args>>

FaqNext == FindBestMatchCall

SpecFaq == FaqInit /\ [][FaqNext]_vars

(***************************************************************************)
(* Claims.                                                                 *)
(***************************************************************************)
\* track i of the live set was created before track j
CreatedBefore(i, j) ==
    \/ ghost[i].born < ghost[j].born
    \/ ghost[i].born = ghost[j].born /\ ghost[i].det < ghost[j].det

\* the tracks the last call created, as they were appended by the spawn step
NewInCall == SubSeq(call.spawned, Len(call.before) + 1, Len(call.spawned))

\* C1: no two tracks of the live set share an id, and a track created later
\* (in a later frame, or at a higher unmatched-detection index of the same
\* frame) has a strictly larger id; a track created by a call has a larger id
\* than every track that was live before the call.
C1_UniqueIncreasingIds ==
    /\ \A i, j \in 1..Len(trackers) :
          /\ i # j => trackers[i].id # trackers[j].id
          /\ CreatedBefore(i, j) => trackers[i].id < trackers[j].id
    /\ \A i \in 1..Len(NewInCall) :
          /\ \A j \in 1..Len(call.before) : call.before[j].id < NewInCall[i].id
          /\ \A j \in 1..Len(NewInCall) : i < j => NewInCall[i].id < NewInCall[j].id

\* C1 witness: three live tracks, two created in the same frame and one in
\* a later frame.
C1_Witness ==
    /\ Len(trackers) >= 3
    /\ \E i, j, k \in 1..Len(trackers) :
          /\ ghost[i].born = ghost[j].born /\ ghost[i].det < ghost[j].det
          /\ ghost[j].born < ghost[k].born

\* C2: the id of a track is the positive ordinal of its creation (the n-th
\* track ever created has id n, also after earlier tracks were pruned), it
\* is set when the track enters the live set and before any row carries it,
\* it is the same after every step of a call, and the id counter is one
\* more than the number of tracks ever created, hence above every id
\* assigned so far.
C2_IdIsCreationOrdinal ==
    /\ next_id = created + 1
    /\ \A i \in 1..Len(trackers) :
          trackers[i].id = ghost[i].ord /\ trackers[i].id >= 1 /\ trackers[i].id < next_id
    /\ \A i \in 1..Len(call.spawned) :
          call.spawned[i].id \in 1..(next_id - 1)
    /\ \A i \in 1..Len(call.before) :
          /\ call.predicted[i].id = call.before[i].id
          /\ ~raised => call.updated[i].id = call.before[i].id
          /\ ~raised => call.spawned[i].id = call.before[i].id
    /\ \A i \in 1..Len(NewInCall) : NewInCall[i].id = created - Len(NewInCall) + i
    /\ \A i \in 1..Len(removed) : removed[i].id \in 1..(next_id - 1)
    /\ \A k \in 1..Len(ret) : \E i \in 1..Len(trackers) :
          ret[k][5] = trackers[i].id /\ ret[k][5] = ghost[i].ord

\* C2 witness: a track created after an earlier track was pruned is live
\* and reported, with the number of tracks ever created as its id.
C2_Witness ==
    /\ created >= 3
    /\ Len(trackers) < created
    /\ \E i \in 1..Len(trackers) :
          /\ ghost[i].ord = created
          /\ ghost[i].born = frame_count
          /\ \E k \in 1..Len(ret) : ret[k][5] = created

\* C10: hits <= age for every track of the live set, at the frame boundary
\* and after the predict, update and spawn steps of the last call.
C10_HitsAtMostAge ==
    /\ \A i \in 1..Len(trackers) : trackers[i].hits <= trackers[i].age
    /\ \A i \in 1..Len(call.before) : call.before[i].hits <= call.before[i].age
    /\ \A i \in 1..Len(call.predicted) : call.predicted[i].hits <= call.predicted[i].age
    /\ \A i \in 1..Len(call.updated) : call.updated[i].hits <= call.updated[i].age
    /\ \A i \in 1..Len(call.spawned) : call.spawned[i].hits <= call.spawned[i].age

\* C10 witness: after a call that matched one track and left another
\* unmatched, a live track has hits = age >= 2 and another has hits < age.
C10_Witness ==
    /\ ~raised
    /\ Len(call.assoc.matched) >= 1
    /\ \E i, j \in 1..Len(trackers) :
          /\ trackers[i].hits = trackers[i].age /\ trackers[i].age >= 2
          /\ trackers[j].hits < trackers[j].age

\* C3: a track whose last real measurement (creation or match) was at
\* frame f is live at the end of every frame before f + max_age and is
\* removed in frame f + max_age: a live track has frame_count below
\* last + max_age, and a track removed by the last call was removed at
\* last + max_age.  Stated for the behaviours in which no call raised, so
\* that a violation does not rest on the IndexError of _associate.
C3_StalenessBound ==
    raises = 0 =>
        /\ \A i \in 1..Len(trackers) : frame_count < ghost[i].last + max_age
        /\ \A i \in 1..Len(removed) : frame_count = removed[i].last + max_age

\* C4: at the end of every update call the live set is exactly the tracks,
\* among the survivors of the previous frame and the tracks spawned in the
\* call, whose age - hits is below max_age.
C4_PruneRule ==
    frame_count > 0 =>
        LET pool == IF raised THEN call.predicted ELSE call.spawned
        IN  /\ \A i \in 1..Len(trackers) :
                  trackers[i].age - trackers[i].hits < max_age
            /\ trackers = SelectSeq(pool, LAMBDA t : t.age - t.hits < max_age)

\* the rows of ret that carry the id of track t
RowsOf(t) == {k \in 1..Len(ret) : ret[k][5] = t.id}

C6_ConfirmationGate ==
    max_age >= 1 =>
        /\ \A i \in 1..Len(NewInCall) :
              frame_count <= min_hits => RowsOf(NewInCall[i]) # {}
        /\ \A i \in 1..Len(trackers) :
              (ghost[i].born > min_hits /\ trackers[i].hits < min_hits)
                  => RowsOf(trackers[i]) = {}

\* C6 witness: a track created after frame min_hits is live with hits
\* below min_hits and is left out of an output that reports another track.
C6_Witness ==
    /\ max_age >= 1 /\ ~raised /\ Len(ret) >= 1
    /\ \E i \in 1..Len(trackers) :
          /\ ghost[i].born > min_hits
          /\ trackers[i].hits < min_hits
          /\ RowsOf(trackers[i]) = {}

\* the set of the elements of a sequence
RangeOf(seq) == {seq[k] : k \in 1..Len(seq)}

\* C7: every call of _associate with N detections and M predictions
\* returns, and the matched and the unmatched detection indices are exactly
\* the N detection indices, none twice, and the matched and the unmatched
\* prediction indices are exactly the M prediction indices, none twice.
C7_PartitionComplete ==
    frame_count > 0 =>
        LET a == call.assoc
            N == Len(call.dets)
            M == Len(call.predicted)
            md == [k \in 1..Len(a.matched) |-> a.matched[k][1]]
            mp == [k \in 1..Len(a.matched) |-> a.matched[k][2]]
        IN  /\ ~a.raised
            /\ RangeOf(md) \cup RangeOf(a.unmatched_dets) = 1..N
            /\ Len(md) + Len(a.unmatched_dets) = N
            /\ RangeOf(mp) \cup RangeOf(a.unmatched_trks) = 1..M
            /\ Len(mp) + Len(a.unmatched_trks) = M

\* C8: when there are detections and predictions and no pair of them has
\* an IoU above iou_threshold, _associate returns an empty match set with
\* every detection and every prediction unmatched.
C8_EmptyMatchHandled ==
    LET N == Len(call.dets)
        M == Len(call.predicted)
    IN  (/\ frame_count > 0 /\ N > 0 /\ M > 0
         /\ \A d \in 1..N : \A p \in 1..M :
               ~IouGreater(iou(call.dets[d], state_to_bbox(call.predicted[p].state)),
                           iou_threshold))
        => call.assoc = [raised |-> FALSE, matched |-> <<>>,
                         unmatched_dets |-> [d \in 1..N |-> d],
                         unmatched_trks |-> [q \in 1..M |-> q]]

\* C9: in every update call each detection outside the accepted pairs
\* creates exactly one track, appended to the live set in increasing
\* detection order with age = hits = 1, the detection as its state and the
\* next id; a detection of an accepted pair creates none.
C9_SpawnRule ==
    frame_count > 0 =>
        LET accepted == {call.assoc.matched[k][1] : k \in 1..Len(call.assoc.matched)}
            free == SelectSeq([d \in 1..Len(call.dets) |-> d], LAMBDA d : d \notin accepted)
        IN  /\ Len(call.spawned) = Len(call.before) + Len(free)
            /\ \A k \in 1..Len(free) :
                  LET t == call.spawned[Len(call.before) + k]
                      b == call.dets[free[k]]
                  IN  /\ t.age = 1 /\ t.hits = 1
                      /\ t.state = <<(b[1] + b[3]) \div 2, (b[2] + b[4]) \div 2,
                                     b[3] - b[1], b[4] - b[2]>>
                      /\ t.id = next_id - Len(free) + k - 1

\* C11: at the end of every update call, age - hits of every live track is
\* the number of frames since its last real measurement (the detection
\* that founded it or the last detection matched to it), hence 0 at the end
\* of a frame in which it was created or matched.  Stated for the
\* behaviours in which no call raised.
C11_StalenessIsConsecutive ==
    raises = 0 =>
        \A i \in 1..Len(trackers) :
            trackers[i].age - trackers[i].hits = frame_count - ghost[i].last

\* the frames of Scenario A
ScenarioA == <<<<BoxA>>, <<BoxA>>, <<>>, <<>>, <<>>>>

\* the run so far is a run of Scenario A
InScenarioA ==
    /\ max_age = 3 /\ min_hits = 1 /\ iou_threshold = <<3, 10>>
    /\ frame_count <= Len(ScenarioA)
    /\ inputs = SubSeq(ScenarioA, 1, frame_count)

\* C12: Scenario A (max_age = 3, min_hits = 1, iou_threshold = 0.3).  Frame
\* 1 with the detection (0,0,10,10) returns one row, id 1 and that box;
\* frame 2 with the same box returns id 1 again and the track has hits = 2;
\* frames 3 to 5 bring no detection: the track stays live through frames 3
\* and 4 and no id is consumed, frame 5 prunes it when age - hits reaches 3
\* and returns nothing.
C12_ScenarioA ==
    InScenarioA =>
        /\ ~raised
        /\ frame_count = 1 => ret = <<BoxA \o <<1>>>>
        /\ frame_count = 2 =>
              /\ ret = <<BoxA \o <<1>>>>
              /\ Len(trackers) = 1 /\ trackers[1].id = 1 /\ trackers[1].hits = 2
        /\ frame_count \in {3, 4} =>
              /\ Len(trackers) = 1 /\ trackers[1].id = 1
              /\ trackers[1].age - trackers[1].hits = frame_count - 2
              /\ next_id = 2 /\ created = 1
        /\ frame_count = 5 =>
              /\ trackers = <<>> /\ ret = <<>>
              /\ Len(removed) = 1 /\ removed[1].id = 1
              /\ call.spawned[1].age - call.spawned[1].hits = 3
              /\ next_id = 2 /\ created = 1

\* C12 witness: the fifth frame of Scenario A has pruned the track.
C12_Witness ==
    InScenarioA /\ frame_count = 5 /\ trackers = <<>> /\ Len(removed) = 1

\* the boxes of frame 1 in the other order
Swapped(s) == <<s[2], s[1]>>

\* C13: Scenario B.  Frame 1 with two disjoint detections creates ids 1
\* and 2; when frame 2 brings the same two boxes, in the same or in the
\* swapped order, every accepted pair joins a detection with the track of
\* the same box, both tracks are matched, no track is created, and the rows
\* of frame 2 give each box the id it had in frame 1.
C13_ScenarioB ==
    (frame_count >= 1 /\ Len(inputs[1]) = 2) =>
        /\ frame_count = 1 =>
              ret = <<inputs[1][1] \o <<1>>, inputs[1][2] \o <<2>>>>
        /\ (frame_count = 2 /\ inputs[2] \in {inputs[1], Swapped(inputs[1])}) =>
              /\ ~raised
              /\ Len(call.assoc.matched) = 2
              /\ \A k \in 1..Len(call.assoc.matched) :
                    call.dets[call.assoc.matched[k][1]]
                        = state_to_bbox(call.predicted[call.assoc.matched[k][2]].state)
              /\ created = 2 /\ next_id = 3 /\ Len(trackers) = 2
              /\ ret = <<inputs[1][1] \o <<1>>, inputs[1][2] \o <<2>>>>

\* C13 witness: frame 2 brought the two boxes of frame 1 in swapped order
\* and returned two rows.
C13_Witness ==
    /\ frame_count = 2
    /\ inputs[1] = <<BoxA, BoxB>> /\ inputs[2] = <<BoxB, BoxA>>
    /\ Len(ret) = 2

\* the run so far is a run of Scenario C: the detection is present in
\* frames 1 and 2 and absent in frame 3; later frames are free
InScenarioC ==
    /\ min_hits = 3 /\ max_age = 3
    /\ frame_count >= 1 /\ inputs[1] = <<BoxA>>
    /\ frame_count >= 2 => inputs[2] = <<BoxA>>
    /\ frame_count >= 3 => inputs[3] = <<>>

\* some row of ret carries the id
HasRow(id) == \E k \in 1..Len(ret) : ret[k][5] = id

\* C14: Scenario C (min_hits = 3, max_age = 3).  The track of a detection
\* seen in frames 1 and 2 only is returned in frames 1, 2 and 3 although
\* its hits are below 3; from frame 4 on it is returned only if a frame
\* from 4 on matched it again and its hits reached 3, and it is not
\* returned in frame 4 when frame 4 does not bring its detection.
C14_ScenarioC ==
    InScenarioC =>
        /\ frame_count <= 3 =>
              /\ ret = <<BoxA \o <<1>>>>
              /\ trackers[1].hits < 3
        /\ (frame_count >= 4 /\ HasRow(1)) =>
              /\ \E i \in 1..Len(trackers) : trackers[i].id = 1 /\ trackers[i].hits >= 3
              /\ \E f \in 4..frame_count : BoxA \in RangeOf(inputs[f])
        /\ (frame_count = 4 /\ BoxA \notin RangeOf(inputs[4])) => ~HasRow(1)

\* C14 witness: frame 4 of Scenario C brought no detection; the track is
\* live with hits = 2 and is not returned.
C14_Witness ==
    /\ InScenarioC /\ frame_count = 4 /\ inputs[4] = <<>>
    /\ Len(trackers) = 1 /\ trackers[1].id = 1 /\ trackers[1].hits = 2
    /\ ~HasRow(1)

\* C15: a new tracker has an empty live set, id counter 1 and frame
\* counter 0; with max_age >= 1 its first update call with N detections
\* returns N rows, the i-th with id i and the box of detection i converted
\* to centre and size and back, and leaves the id counter at N + 1 (N = 0:
\* no row, no id consumed).
C15_FirstFrame ==
    /\ frame_count = 0 => (trackers = <<>> /\ next_id = 1 /\ ret = <<>>)
    /\ (frame_count = 1 /\ max_age >= 1) =>
          LET N == Len(call.dets)
          IN  /\ ~raised
              /\ Len(ret) = N
              /\ next_id = N + 1
              /\ \A i \in 1..N :
                    LET b == call.dets[i]
                        cx == (b[1] + b[3]) \div 2
                        cy == (b[2] + b[4]) \div 2
                        w == b[3] - b[1]
                        h == b[4] - b[2]
                    IN  ret[i] = <<cx - w \div 2, cy - h \div 2,
                                   cx + w \div 2, cy + h \div 2, i>>

\* C15 witness: the first call had two detections and returned two rows.
C15_Witness ==
    frame_count = 1 /\ max_age >= 1 /\ Len(call.dets) = 2 /\ Len(ret) = 2

\* C16: no tracker exists with max_age <= 0, min_hits <= 0 or an
\* iou_threshold outside [0, 1): the constructor refuses such arguments,
\* so every constructed tracker has a valid configuration.
C16_ConfigurationChecked ==
    /\ max_age >= 1
    /\ min_hits >= 1
    /\ 0 <= iou_threshold[1] /\ iou_threshold[1] < iou_threshold[2]

\* some coordinate of the vector is NaN
HasNaN(v) == \E i \in 1..Len(v) : v[i] = NaN

\* C17: a detection with a non-finite coordinate is rejected, not used: no
\* track created by a call, no live track and no returned row has a
\* non-finite coordinate.  Stated for the valid configurations (max_age >=
\* 1), so that a violation does not rest on an unchecked configuration.
C17_NonFiniteRejected ==
    max_age >= 1 =>
        /\ \A i \in 1..Len(call.spawned) : ~HasNaN(call.spawned[i].state)
        /\ \A i \in 1..Len(trackers) : ~HasNaN(trackers[i].state)
        /\ \A k \in 1..Len(ret) : ~HasNaN(ret[k])

\* the box has positive width and height
WellFormed(b) == b[1] < b[3] /\ b[2] < b[4]

\* x_min <= x_max and y_min <= y_max
Ordered(b) == b[1] <= b[3] /\ b[2] <= b[4]

\* the boxes share no point or only points of their borders
Apart(a, b) == a[3] <= b[1] \/ b[3] <= a[1] \/ a[4] <= b[2] \/ b[4] <= a[2]

\* box a contains box b
Contains(a, b) == a[1] <= b[1] /\ a[2] <= b[2] /\ b[3] <= a[3] /\ b[4] <= a[4]

\* C18: for well-formed boxes A and B of the grid, iou(A, A) = 1, iou(A, B)
\* = 0 when A and B are disjoint or touch only along an edge or at a
\* corner, and iou(A, B) = area(B) / area(A) when A contains B.
C18_IouReferenceValues ==
    (result # <<>> /\ WellFormed(args[1]) /\ WellFormed(args[2])) =>
        LET A == args[1]
            B == args[2]
        IN  /\ result[2] > 0
            /\ A = B => result[1] = result[2]
            /\ Apart(A, B) => result[1] = 0
            /\ Contains(A, B) =>
                  result[1] * ((A[3] - A[1]) * (A[4] - A[2]))
                      = ((B[3] - B[1]) * (B[4] - B[2])) * result[2]

\* C18 witness: iou was called on a box and a smaller box inside it and
\* returned a value strictly between 0 and 1.
C18_Witness ==
    /\ result # <<>> /\ WellFormed(args[1]) /\ WellFormed(args[2])
    /\ Contains(args[1], args[2]) /\ args[1] # args[2]
    /\ 0 < result[1] /\ result[1] < result[2]

\* C19: iou(A, B) = iou(B, A) for every two boxes of the grid, boxes of
\* zero area included.
C19_IouSymmetric ==
    result # <<>> => result = iou(args[2], args[1])

\* C19 witness: iou was called on a box of zero area and a different,
\* well-formed box around it.
C19_Witness ==
    /\ result # <<>>
    /\ Ordered(args[1]) /\ ~WellFormed(args[1]) /\ WellFormed(args[2])
    /\ Contains(args[2], args[1])

\* C20: for boxes with x_min <= x_max and y_min <= y_max, iou returns a
\* value between 0 and 1 (0 <= intersection <= union), and when the union
\* area is 0 it returns 0 and divides by nothing.
C20_IouRange ==
    (result # <<>> /\ Ordered(args[1]) /\ Ordered(args[2])) =>
        LET A == args[1]
            B == args[2]
            areas == (A[3] - A[1]) * (A[4] - A[2]) + (B[3] - B[1]) * (B[4] - B[2])
        IN  /\ result[2] > 0
            /\ 0 <= result[1] /\ result[1] <= result[2]
            /\ areas = 0 => result[1] = 0

\* C20 witness: iou was called on two boxes of zero area that share a
\* point, so that the union area is 0, and returned 0.
C20_Witness ==
    /\ result # <<>>
    /\ Ordered(args[1]) /\ Ordered(args[2])
    /\ ~NoInter(args[1], args[2])
    /\ BoxArea(args[1]) = 0 /\ BoxArea(args[2]) = 0
    /\ result[1] = 0

\* the IoU value v equals the threshold t
IouEqual(v, t) == v[1] * t[2] = t[1] * v[2]

\* C21: every pair _associate returns as matched has an IoU strictly above
\* iou_threshold; a pair of the solver's pairing whose IoU equals the
\* threshold (IoU 0 with threshold 0 included) is not matched, and its
\* detection and its prediction are returned as unmatched.
C21_ThresholdGate ==
    (result # <<>> /\ Len(args[1]) > 0 /\ Len(args[2]) > 0) =>
        LET M == IouMatrix(args[1], args[2])
            r == result.out
        IN  /\ \A k \in 1..Len(r.matched) :
                  IouGreater(M[r.matched[k][1]][r.matched[k][2]], iou_threshold)
            /\ \A k \in 1..Len(result.cand) :
                  LET d == result.cand[k][1]
                      p == result.cand[k][2]
                  IN  IouEqual(M[d][p], iou_threshold) =>
                          /\ ~r.raised
                          /\ <<d, p>> \notin RangeOf(r.matched)
                          /\ d \in RangeOf(r.unmatched_dets)
                          /\ p \in RangeOf(r.unmatched_trks)

\* C22: in the matched set of a call no detection index and no prediction
\* index occurs in two pairs; in every update call each live track is
\* updated at most once, and each detection either updates exactly one
\* track or creates exactly one track, never both and never two.
C22_OneToOne ==
    frame_count > 0 =>
        LET m == call.assoc.matched
            u == call.assoc.unmatched_dets
        IN  /\ \A j, k \in 1..Len(m) :
                  j # k => (m[j][1] # m[k][1] /\ m[j][2] # m[k][2])
            /\ \A i \in 1..Len(call.updated) :
                  call.updated[i].hits <= call.before[i].hits + 1
            /\ Len(NewInCall) = Len(u)
            /\ \A d \in 1..Len(call.dets) :
                  Cardinality({k \in 1..Len(m) : m[k][1] = d})
                      + Cardinality({k \in 1..Len(u) : u[k] = d}) = 1

\* C23: with detections and predictions both present, the pairing computed
\* before the threshold gate has min(N, M) pairs, uses no detection and no
\* prediction twice and has the largest total IoU among the one-to-one
\* pairings of that size, and the matched set that _associate returns is
\* the pairs of it whose IoU is above the threshold.
C23_OptimalAssignment ==
    (result # <<>> /\ Len(args[1]) > 0 /\ Len(args[2]) > 0) =>
        LET N == Len(args[1])
            M == Len(args[2])
            iou_matrix == IouMatrix(args[1], args[2])
            a == result.cand
            Total(b) == TotalIou(iou_matrix, b, 1)
        IN  /\ Len(a) = min(N, M)
            /\ \A k \in 1..Len(a) : a[k][1] \in 1..N /\ a[k][2] \in 1..M
            /\ \A j, k \in 1..Len(a) :
                  j # k => (a[j][1] # a[k][1] /\ a[j][2] # a[k][2])
            /\ \A b \in Assignments(N, M) : ~FracLess(Total(a), Total(b))
            /\ ~result.out.raised
            /\ result.out.matched =
                  SelectSeq(a, LAMBDA pr :
                      iou_matrix[pr[1]][pr[2]][1] * iou_threshold[2]
                          > iou_threshold[1] * iou_matrix[pr[1]][pr[2]][2])

\* C24: in every update call the tracks of the live set that are in an
\* accepted pair <<d, p>> (p the position in the live set at the start of
\* the call) get hits + 1 and the estimate 0.7 * old + 0.3 * detection d;
\* every other track keeps estimate and hits; every track keeps its id and
\* its age grows by 1; the tracks that stay live carry exactly these
\* values.  A call without detections changes no estimate, creates no
\* track and leaves the id counter alone.
C24_FrameEffect ==
    [][LET m == call'.assoc.matched
           after == IF raised' THEN call'.predicted ELSE call'.updated
       IN  /\ call'.before = trackers
           /\ Len(after) = Len(trackers)
           /\ \A p \in 1..Len(trackers) :
                 /\ after[p].id = trackers[p].id
                 /\ after[p].age = trackers[p].age + 1
                 /\ \A k \in 1..Len(m) : m[k][2] = p =>
                       /\ after[p].hits = trackers[p].hits + 1
                       /\ LET b == call'.dets[m[k][1]]
                              new_state == <<(b[1] + b[3]) \div 2, (b[2] + b[4]) \div 2,
                                             b[3] - b[1], b[4] - b[2]>>
                          IN  \A i \in 1..4 :
                                  10 * after[p].state[i]
                                      = 7 * trackers[p].state[i] + 3 * new_state[i]
                 /\ (\A k \in 1..Len(m) : m[k][2] # p) =>
                       /\ after[p].hits = trackers[p].hits
                       /\ after[p].state = trackers[p].state
                 /\ \A j \in 1..Len(trackers') :
                       trackers'[j].id = trackers[p].id => trackers'[j] = after[p]
           /\ call'.dets = <<>> =>
                 /\ ~raised'
                 /\ next_id' = next_id
                 /\ created' = created
                 /\ Len(call'.spawned) = Len(trackers)
                 /\ \A p \in 1..Len(trackers) : after[p].state = trackers[p].state
      ]_vars

\* C24 witness: a call matched one track of the live set and left another
\* one unmatched.
C24_Witness ==
    /\ frame_count > 0 /\ ~raised
    /\ Len(call.before) >= 2
    /\ Len(call.assoc.matched) = 1
    /\ Len(call.assoc.unmatched_trks) >= 1

\* C25: predict adds exactly 1 to age, leaves state, hits and id as they
\* were and returns the box get_bbox gave before the call; get_bbox returns
\* the box of the state and changes nothing.
C25_PredictEffect ==
    result # <<>> =>
        LET s == result.before.state
            box == <<s[1] - s[3] \div 2, s[2] - s[4] \div 2,
                     s[1] + s[3] \div 2, s[2] + s[4] \div 2>>
        IN  /\ result.method = "predict" =>
                  /\ args.t.age = result.before.age + 1
                  /\ args.t.state = result.before.state
                  /\ args.t.hits = result.before.hits
                  /\ args.t.id = result.before.id
                  /\ result.value = get_bbox(result.before)
                  /\ result.value = box
            /\ result.method = "get_bbox" =>
                  /\ args.t = result.before
                  /\ result.value = box

\* C25 witness: predict was called on a track that an update had blended
\* before.
C25_Witness ==
    /\ result # <<>> /\ result.method = "predict"
    /\ result.before.hits >= 2
    /\ args.t.age = result.before.age + 1

\* C26: update(m) sets each of the four state components to 0.7 * its old
\* value + 0.3 * the component of the measurement, exactly, adds 1 to hits
\* and leaves age and id as they were; with a measurement equal to the
\* current box the box stays the same.
C26_UpdateBlend ==
    (result # <<>> /\ result.method = "update") =>
        LET m == result.bbox
            new_state == <<(m[1] + m[3]) \div 2, (m[2] + m[4]) \div 2,
                           m[3] - m[1], m[4] - m[2]>>
        IN  /\ \A i \in 1..4 :
                  10 * args.t.state[i] = 7 * result.before.state[i] + 3 * new_state[i]
            /\ args.t.hits = result.before.hits + 1
            /\ args.t.age = result.before.age
            /\ args.t.id = result.before.id
            /\ m = get_bbox(result.before) => get_bbox(args.t) = get_bbox(result.before)

\* C26 witness: a track that was blended before is updated with a
\* measurement that differs from its box.
C26_Witness ==
    /\ result # <<>> /\ result.method = "update"
    /\ result.before.hits >= 2
    /\ result.bbox # get_bbox(result.before)
    /\ args.t.state # result.before.state

\* C27: every update call adds exactly 1 to the frame counter and exactly
\* 1 to the age of every track that was live at its start, matched or not,
\* and the age of a live track is the number of frames from the frame of
\* its creation to the current frame, both counted.
C27_AgeCountsFrames ==
    [][/\ frame_count' = frame_count + 1
       /\ Len(call'.predicted) = Len(trackers)
       /\ \A p \in 1..Len(trackers) :
             /\ call'.predicted[p].age = trackers[p].age + 1
             /\ \A j \in 1..Len(trackers') :
                   trackers'[j].id = trackers[p].id
                       => trackers'[j].age = trackers[p].age + 1
       /\ \A j \in 1..Len(trackers') :
             trackers'[j].age = frame_count' - ghost'[j].born + 1
      ]_vars

\* C27 witness: a track created two frames ago is live with age 3 after a
\* frame that matched it and a frame that did not.
C27_Witness ==
    \E i \in 1..Len(trackers) :
        /\ ghost[i].born = frame_count - 2
        /\ trackers[i].age = 3 /\ trackers[i].hits = 2

\* C28: the rows of every result are in the order of the live set, which
\* is the order of creation: the ids of the live set and of the rows rise
\* strictly from first to last, and two tracks that survive a call keep
\* their relative order.
C28_OutputOrder ==
    /\ \A i, j \in 1..Len(trackers) : i < j => trackers[i].id < trackers[j].id
    /\ \A k, l \in 1..Len(ret) : k < l => ret[k][5] < ret[l][5]
    /\ \A k, l \in 1..Len(ret) : \A i, j \in 1..Len(trackers) :
          (k < l /\ ret[k][5] = trackers[i].id /\ ret[l][5] = trackers[j].id) => i < j
    /\ \A p, q \in 1..Len(call.before) : \A i, j \in 1..Len(trackers) :
          (p < q /\ trackers[i].id = call.before[p].id
                 /\ trackers[j].id = call.before[q].id) => i < j

\* C28 witness: a call pruned a track, created a track and returned at
\* least two rows, one of a track that was live before the call.
C28_Witness ==
    /\ ~raised /\ Len(ret) >= 2
    /\ Len(removed) >= 1 /\ Len(NewInCall) >= 1
    /\ \E p \in 1..Len(call.before) : ret[1][5] = call.before[p].id

\* the tracks of the last call after its update and spawn steps (after
\* its predict step when the call raised)
AfterCall == IF raised THEN call.predicted ELSE call.spawned

\* track p of the live set at the start of the last call was matched
MatchedInCall(p) == \E k \in 1..Len(call.assoc.matched) : call.assoc.matched[k][2] = p

\* C29: age - hits of a track is 0 at creation, stays the same in a frame
\* that matches the track and grows by exactly 1 in a frame that does not,
\* so it never decreases and is the number of frames since creation
\* without a match; a track leaves the live set in the frame in which this
\* number reaches max_age, consecutive misses or not.
C29_CumulativeStaleness ==
    frame_count > 0 =>
        /\ \A p \in 1..Len(call.before) :
              LET was == call.before[p].age - call.before[p].hits
                  now == AfterCall[p].age - AfterCall[p].hits
              IN  now = IF MatchedInCall(p) THEN was ELSE was + 1
        /\ \A i \in 1..Len(NewInCall) : NewInCall[i].age - NewInCall[i].hits = 0
        /\ \A p \in 1..Len(AfterCall) :
              (AfterCall[p].age - AfterCall[p].hits >= max_age)
                  <=> (\A j \in 1..Len(trackers) : trackers[j].id # AfterCall[p].id)

\* C30: the hits of a track never decrease, and a live track with hits >=
\* min_hits is in the result of every frame, matched in it or not, with the
\* box of its current estimate.
C30_ConfirmedStaysReported ==
    frame_count > 0 =>
        /\ \A p \in 1..Len(call.before) : AfterCall[p].hits >= call.before[p].hits
        /\ \A i \in 1..Len(trackers) :
              trackers[i].hits >= min_hits =>
                  \E k \in 1..Len(ret) :
                      ret[k] = state_to_bbox(trackers[i].state) \o <<trackers[i].id>>

\* x lies between a and b
Between(x, a, b) == (a <= x /\ x <= b) \/ (b <= x /\ x <= a)

\* the corner box of a state, written out
BoxOf(s) == <<s[1] - s[3] \div 2, s[2] - s[4] \div 2, s[1] + s[3] \div 2, s[2] + s[4] \div 2>>

\* C31: with well-formed detections in every frame, every live track has
\* a state of positive width and height, every returned box has x_min <
\* x_max and y_min < y_max, and after a matched update every corner
\* coordinate of the track's box lies between the coordinate of its box
\* before the update and the coordinate of the detection.
C31_WellFormedPreserved ==
    /\ \A i \in 1..Len(trackers) :
          /\ trackers[i].state[3] > 0 /\ trackers[i].state[4] > 0
          /\ WellFormed(BoxOf(trackers[i].state))
    /\ \A k \in 1..Len(ret) : ret[k][1] < ret[k][3] /\ ret[k][2] < ret[k][4]
    /\ ~raised =>
          \A k \in 1..Len(call.assoc.matched) :
              LET d == call.assoc.matched[k][1]
                  p == call.assoc.matched[k][2]
                  old == BoxOf(call.predicted[p].state)
                  new == BoxOf(call.updated[p].state)
              IN  /\ call.updated[p].state[3] > 0 /\ call.updated[p].state[4] > 0
                  /\ \A c \in 1..4 : Between(new[c], old[c], call.dets[d][c])

\* C31 witness: a matched update moved a corner of a track strictly
\* between its old place and the detection's, and the track was returned.
C31_Witness ==
    /\ ~raised /\ Len(ret) >= 1
    /\ \E k \in 1..Len(call.assoc.matched) :
          LET d == call.assoc.matched[k][1]
              p == call.assoc.matched[k][2]
              old == BoxOf(call.predicted[p].state)
              new == BoxOf(call.updated[p].state)
          IN  /\ old[3] # call.dets[d][3]
              /\ new[3] # old[3] /\ new[3] # call.dets[d][3]
              /\ Between(new[3], old[3], call.dets[d][3])

\* The value None of Python as a returned value; what find_best_match
\* returns is a record of type "dict".
NoneValue == [type |-> "NoneType"]

MeetsThreshold(i) == args.similarities[i] >= args.threshold

\* FAQ i has the highest similarity to the query.
Highest(i) == \A j \in 1..Len(args.similarities) : args.similarities[j] <= args.similarities[i]

\* C32: after a call of find_best_match, the returned value is None when no
\* FAQ's similarity to the query meets the threshold, and otherwise it is a
\* dictionary with the answer, the similarity score, the question and the
\* index of a FAQ of the highest similarity.
C32_NoneBelowThreshold ==
    result # <<>> =>
        IF \A i \in 1..Len(args.similarities) : ~MeetsThreshold(i)
        THEN result = NoneValue
        ELSE /\ result.type = "dict"
             /\ \E i \in 1..Len(args.similarities) :
                   /\ Highest(i)
                   /\ result.faq_index = i - 1
                   /\ result.answer = args.faq_database[i].answer
                   /\ result.matched_question = args.faq_database[i].question
                   /\ result.similarity_score = args.similarities[i]

=============================================================================
